---- MODULE Spec2Model ----
(***************************************************************************)
(* Model of the price aggregator of label-agent                            *)
(* (src/pricing_tools/pricing_model.py).                                   *)
(*                                                                         *)
(* Amounts.  A Python Decimal is the record [t, coef, exp] standing for    *)
(* coef * 10^exp (the Decimal keeps the digits it was written with:        *)
(* Decimal("12.50") has coef 1250, exp -2).  A Python float is the record  *)
(* [t, mills] holding the number in thousandths of a dollar; the model     *)
(* covers values with at most three fractional digits, on which            *)
(* float(Decimal) is exact up to the binary representation error of a      *)
(* double.  That error only matters where round(x, 2) meets an exact       *)
(* half-cent: there Round2 yields both neighbouring cents.                 *)
(*                                                                         *)
(* Strings are sequences of one-character strings over the alphabet        *)
(* digits, ".", "-", "$", ",", " " and letters.                            *)
(***************************************************************************)
EXTENDS Integers, Sequences, FiniteSets, TLC

VARIABLES
    pc,         \* position of get_best_price
    category,   \* the category argument of the call
    plan,       \* what each adapter does when (if) it is called
    sources,    \* the local dict `sources`, in insertion order
    calls,      \* number of invocations of each adapter (observer)
    inflight,   \* adapters invoked and not yet returned (observer)
    log,        \* sequence of call / return / check events (observer)
    result,     \* the returned mapping, NoResult until the call returns
    raised,     \* TRUE when an exception left get_best_price
    nvalue,     \* the argument of a call of _normalize_price
    nout,       \* what that call returned, NotCalled before it
    rtype,      \* the type_ argument of apply_pricing_rules
    rfields,    \* the fields mapping the rules are applied to (mutated in place)
    rhist,      \* the mapping as it was before each application (observer)
    ireq,       \* the ingest request: its type and whether its image opens
    ivision,    \* the mapping parsed from the vision model's answer
    ipc,        \* where the ingest handler is
    ifields,    \* the handler's fields mapping
    idraft,     \* the draft file written for review, NoDraft before it
    aname,      \* the adapter wrapper that is called
    afault,     \* what the adapter's transport or configuration does
    apayload,   \* the two prices of a good answer
    apc,        \* where the wrapper is
    ainner,     \* how the lookup inside the wrapper's try ended
    aresult,    \* what the caller of the wrapper gets, NotCalled before it
    fretries,   \* the retries argument of _fetch_json
    fplan,      \* what the server does at each request, in order
    fattempt,   \* the loop variable attempt
    fpc,        \* where _fetch_json is
    frequests,  \* number of HTTP requests issued (observer)
    fsleeps,    \* the seconds slept, in order (observer)
    fresult,    \* what _fetch_json returned, NotCalled before it
    tcreds,     \* whether the eBay credentials are configured
    tnow,       \* time.time(), in seconds
    tticks,     \* number of steps time has made
    tcache,     \* TOKEN_CACHE
    tpc,        \* where get_ebay_access_token is
    tissued,    \* number of tokens the issuer has handed out
    tcall,      \* the call under way: when it checked the cache, and the cache then (observer)
    tcalls,     \* number of calls finished
    tlast,      \* the record of the call that finished last (observer)
    lnow,       \* sandpiper login: the clock, time.time() in seconds
    lticks,     \* number of clock advances taken
    lcache,     \* the module globals (_cached_token, _cached_expiry)
    lproc,      \* per _login call: position, its local now, the token it received, what it returned
    lwriter,    \* the call that wrote the cache last, 0 when none did (observer)
    sdraft,     \* sessions: per session id, the draft file logs/temp_<id>.json
    snext,      \* number of session ids that ingest has issued
    sitems,     \* per session id, inventory items created in Sandpiper
    sbarcodes,  \* per session id, barcode generations requested
    srows,      \* per session id, rows the spreadsheet webhook accepted
    sapproved,  \* per session id, approve requests that completed
    sstarted,   \* number of approve requests that passed the draft check
    sreq,       \* the request being handled, NotCalled between requests
    slast       \* the record of the request that finished last, forgotten when an approve begins (observer)

aggVars == <<pc, category, plan, sources, calls, inflight, log, result, raised>>

normVars == <<nvalue, nout>>

rulesVars == <<rtype, rfields, rhist>>

ingestVars == <<ireq, ivision, ipc, ifields, idraft>>

adapterVars == <<aname, afault, apayload, apc, ainner, aresult>>

fetchVars == <<fretries, fplan, fattempt, fpc, frequests, fsleeps, fresult>>

tokenVars == <<tcreds, tnow, tticks, tcache, tpc, tissued, tcall, tcalls, tlast>>

loginVars == <<lnow, lticks, lcache, lproc, lwriter>>

sessionVars == <<sdraft, snext, sitems, sbarcodes, srows, sapproved, sstarted, sreq, slast>>

\* the state outside get_best_price
outsideAggregator == <<normVars, rulesVars, ingestVars, adapterVars, fetchVars, tokenVars, loginVars, sessionVars>>

\* the state outside _normalize_price
outsideNormalizer == <<aggVars, rulesVars, ingestVars, adapterVars, fetchVars, tokenVars, loginVars, sessionVars>>

\* the state outside apply_pricing_rules
outsideRules == <<aggVars, normVars, ingestVars, adapterVars, fetchVars, tokenVars, loginVars, sessionVars>>

\* the state outside the ingest handler
outsideIngest == <<aggVars, normVars, rulesVars, adapterVars, fetchVars, tokenVars, loginVars, sessionVars>>

\* the state outside an adapter wrapper
outsideAdapter == <<aggVars, normVars, rulesVars, ingestVars, fetchVars, tokenVars, loginVars, sessionVars>>

\* the state outside _fetch_json
outsideFetch == <<aggVars, normVars, rulesVars, ingestVars, adapterVars, tokenVars, loginVars, sessionVars>>

\* the state outside get_ebay_access_token
outsideToken == <<aggVars, normVars, rulesVars, ingestVars, adapterVars, fetchVars, loginVars, sessionVars>>

\* Everything outside the sandpiper login component.
outsideLogin == <<aggVars, normVars, rulesVars, ingestVars, adapterVars, fetchVars, tokenVars, sessionVars>>

\* Everything outside the session component.
outsideSession == <<aggVars, normVars, rulesVars, ingestVars, adapterVars, fetchVars, tokenVars, loginVars>>

vars == <<aggVars, outsideAggregator>>

\* Largest multiple of ten dollars among the numeric adapter samples.
MaxTens == 2

Adapters == {"Discogs", "eBay", "WebSearch"}

Categories == {"general", "media", "card", "comic", "misc"}

(***************************************************************************)
(* Python values                                                           *)
(***************************************************************************)
None == [t |-> "None"]

PyFloat(m) == [t |-> "float", mills |-> m]

PyStr(s) == [t |-> "str", s |-> s]

\* a list or dict: a value Decimal() has no conversion for
PyObj == [t |-> "obj"]

PyDecimal(c, e) == [t |-> "Decimal", coef |-> c, exp |-> e]

\* "$1,234.50"
StrDollarComma == <<"$", "1", ",", "2", "3", "4", ".", "5", "0">>

\* " 12.5 "
StrPadded == <<" ", "1", "2", ".", "5", " ">>

\* "n/a"
StrGarbage == <<"n", "a">>

\* "-3"
StrNegative == <<"-", "3">>

Values ==
    {None, PyObj}
    \cup {PyFloat(k * 10000) : k \in 1..MaxTens}
    \cup {PyFloat(12345), PyFloat(4), PyFloat(0), PyFloat(-5000)}
    \cup {PyStr(StrDollarComma), PyStr(StrPadded), PyStr(StrGarbage), PyStr(StrNegative)}

Raise == [t |-> "raise"]

Outcomes == Values \cup {Raise}

(***************************************************************************)
(* str.replace(ch, ""), str.strip() and the Decimal constructor            *)
(***************************************************************************)
Digits == {"0", "1", "2", "3", "4", "5", "6", "7", "8", "9"}

DigitVal(c) ==
    CASE c = "0" -> 0 [] c = "1" -> 1 [] c = "2" -> 2 [] c = "3" -> 3
      [] c = "4" -> 4 [] c = "5" -> 5 [] c = "6" -> 6 [] c = "7" -> 7
      [] c = "8" -> 8 [] c = "9" -> 9

\* s.replace(ch, "")
Replace(s, ch) == SelectSeq(s, LAMBDA c : c # ch)

\* s.strip(): s from its first to its last character that is not a space
Strip(s) ==
    LET keep == {i \in 1..Len(s) : s[i] # " "}
    IN  IF keep = {} THEN <<>>
        ELSE SubSeq(s, CHOOSE i \in keep : \A j \in keep : i <= j,
                       CHOOSE i \in keep : \A j \in keep : i >= j)

\* the integer written by the first n of a sequence of digits
RECURSIVE DigitsToInt(_, _)
DigitsToInt(ds, n) ==
    IF n = 0 THEN 0 ELSE 10 * DigitsToInt(ds, n - 1) + DigitVal(ds[n])

\* the Decimal conversion failed (decimal.InvalidOperation, TypeError)
ConversionError == [t |-> "error"]

\* Decimal(str): [sign] digits [. digits], at least one digit; anything
\* else over the model's alphabet is an InvalidOperation.
DecimalFromStr(s0) ==
    LET s == Strip(s0)
        signed == s # <<>> /\ Head(s) \in {"-", "+"}
        body == IF signed THEN Tail(s) ELSE s
        dots == {i \in 1..Len(body) : body[i] = "."}
        dot == IF dots = {} THEN Len(body) + 1 ELSE CHOOSE i \in dots : TRUE
        int == SubSeq(body, 1, dot - 1)
        frac == SubSeq(body, dot + 1, Len(body))
        wellformed ==
            /\ Cardinality(dots) <= 1
            /\ \A i \in 1..Len(int) : int[i] \in Digits
            /\ \A i \in 1..Len(frac) : frac[i] \in Digits
            /\ Len(int) + Len(frac) >= 1
        mag == DigitsToInt(int \o frac, Len(int) + Len(frac))
    IN  IF ~wellformed THEN ConversionError
        ELSE PyDecimal(IF signed /\ Head(s) = "-" THEN -mag ELSE mag, -Len(frac))

\* Decimal(value) for the values of the model
Decimal(value) ==
    CASE value.t = "str" -> DecimalFromStr(value.s)
      [] value.t = "float" -> PyDecimal(value.mills, -3)
      [] value.t = "Decimal" -> value
      [] OTHER -> ConversionError

RECURSIVE Pow10(_)
Pow10(n) == IF n = 0 THEN 1 ELSE 10 * Pow10(n - 1)

\* float(d) for a Decimal with at most three fractional digits
Float(d) == PyFloat(d.coef * Pow10(3 + d.exp))

\* bool(p) of `if p:` for p a Decimal or None
Truthy(p) == p.t = "Decimal" /\ p.coef # 0

(***************************************************************************)
(* _normalize_price                                                        *)
(***************************************************************************)
\* a normalizer that keeps the digit-group separators
NormalizeKeepsCommas(value) ==
    IF value.t = "None" THEN None
    ELSE LET v == IF value.t = "str"
                  THEN PyStr(Strip(Replace(value.s, "$")))
                  ELSE value
             val == Decimal(v)
         IN  IF val.t = "error" THEN None
             ELSE IF val.coef > 0 THEN val ELSE None

_normalize_price(value) ==
    IF value.t = "None" THEN None
    ELSE LET v == IF value.t = "str"
                  THEN PyStr(Strip(Replace(Replace(value.s, "$"), ",")))
                  ELSE value
             val == Decimal(v)
         IN  IF val.t = "error" THEN None
             ELSE IF val.coef > 0 THEN val ELSE None

\* _normalize_price over the values an adapter can return, evaluated once
Normalized == [value \in Values |-> _normalize_price(value)]

(***************************************************************************)
(* the dict `sources`: a sequence of [k, v] in insertion order             *)
(***************************************************************************)
Keys(d) == {d[i].k : i \in 1..Len(d)}

Get(d, key) == d[CHOOSE i \in 1..Len(d) : d[i].k = key].v

\* a dict that puts a new key first
PutFirst(d, key, val) == <<[k |-> key, v |-> val]>> \o SelectSeq(d, LAMBDA e : e.k # key)

\* d[key] = val: a new key goes last, an existing key keeps its place
Put(d, key, val) ==
    IF key \in Keys(d)
    THEN [i \in 1..Len(d) |-> IF d[i].k = key THEN [k |-> key, v |-> val] ELSE d[i]]
    ELSE Append(d, [k |-> key, v |-> val])

(***************************************************************************)
(* get_best_price                                                          *)
(***************************************************************************)
NoResult == [t |-> "none"]

\* the result mapping of the weighted branch has no "note" key
NoKey == "<no key>"

\* weights = {"eBay": 0.75, "WebSearch": 0.25}, in hundredths
weights == [eBay |-> 75, WebSearch |-> 25]

\* {k: float(v) for k, v in sources.items()}
FloatItems(d) == [i \in 1..Len(d) |-> [k |-> d[i].k, v |-> Float(d[i].v)]]

\* active_weights = {k: weights[k] for k in sources.keys() if k in weights}
ActiveKeys(d) == Keys(d) \cap DOMAIN weights

RECURSIVE SumOver(_, _)
SumOver(S, f) ==
    IF S = {} THEN 0
    ELSE LET x == CHOOSE y \in S : TRUE IN f[x] + SumOver(S \ {x}, f)

\* a total weight that counts eBay alone
TotalWEbayOnly(d) == SumOver(ActiveKeys(d) \cap {"eBay"}, weights)

\* total_w, in hundredths
TotalW(d) == SumOver(ActiveKeys(d), weights)

\* weighted_sum, in hundredths of a mill
WeightedSum(d) ==
    SumOver(ActiveKeys(d), [k \in ActiveKeys(d) |-> Float(Get(d, k)).mills * weights[k]])

\* round(num / den, 2) of a non-negative quotient given in mills, as the set
\* of floats it can be: the nearest cent, and both neighbours when the
\* quotient is an exact half-cent (the double nearest to the quotient lies on
\* either side of it).
Round2(num, den) ==
    LET q == num \div (10 * den)
        r == num % (10 * den)
    IN  IF 2 * r < 10 * den THEN {PyFloat(10 * q)}
        ELSE IF 2 * r > 10 * den THEN {PyFloat(10 * (q + 1))}
        ELSE {PyFloat(10 * q), PyFloat(10 * (q + 1))}

\* a weighted average over a fixed total weight of 1.00: an absent source
\* counts as zero
WeightedAvgFixedTotal(d) == Round2(WeightedSum(d), 100)

\* weighted_avg = round(weighted_sum / total_w, 2) if total_w > 0 else None
WeightedAvg(d) ==
    IF TotalW(d) > 0 THEN Round2(WeightedSum(d), TotalW(d)) ELSE {None}

\* the early return of lines 51-55
AuthoritativeResult(d) ==
    [sources |-> <<[k |-> "Discogs", v |-> Float(Get(d, "Discogs"))]>>,
     final_price |-> Float(Get(d, "Discogs")),
     note |-> "Discogs authoritative source used."]

\* a none-found result that reports a price of zero
NoneFoundZero == [sources |-> <<>>, final_price |-> PyFloat(0), note |-> "No prices found"]

\* the return of line 94
NoneFoundResult == [sources |-> <<>>, final_price |-> None, note |-> "No prices found"]

NotCalled == [t |-> "not called"]

\* no call of _normalize_price is under way
NormIdle == nvalue = None /\ nout = NotCalled

\* no fields mapping is being priced
RulesIdle == rtype = "none" /\ rfields = <<>> /\ rhist = <<>>

NoDraft == [t |-> "no draft"]

\* no ingest request is being handled
IngestIdle ==
    /\ ireq = [type |-> "none", image |-> "none"]
    /\ ivision = <<>>
    /\ ipc = "idle"
    /\ ifields = <<>>
    /\ idraft = NoDraft

\* no adapter wrapper is running
AdapterIdle ==
    /\ aname = "none"
    /\ afault = "none"
    /\ apayload = <<>>
    /\ apc = "idle"
    /\ ainner = NotCalled
    /\ aresult = NotCalled

\* no _fetch_json call is under way
FetchIdle ==
    /\ fretries = 0
    /\ fplan = <<>>
    /\ fattempt = 0
    /\ fpc = "idle"
    /\ frequests = 0
    /\ fsleeps = <<>>
    /\ fresult = NotCalled

\* get_ebay_access_token has not been imported
TokenIdle ==
    /\ tcreds = FALSE
    /\ tnow = 0
    /\ tticks = 0
    /\ tcache = NotCalled
    /\ tpc = "unloaded"
    /\ tissued = 0
    /\ tcall = NotCalled
    /\ tcalls = 0
    /\ tlast = NotCalled

\* The login component at rest, for the specifications of the other components.
LoginIdle ==
    /\ lnow = 0
    /\ lticks = 0
    /\ lcache = NotCalled
    /\ lproc = NotCalled
    /\ lwriter = 0

\* The session component at rest, for the specifications of the other components.
SessionIdle ==
    /\ sdraft = NotCalled
    /\ snext = 0
    /\ sitems = NotCalled
    /\ sbarcodes = NotCalled
    /\ srows = NotCalled
    /\ sapproved = NotCalled
    /\ sstarted = 0
    /\ sreq = NotCalled
    /\ slast = NotCalled

TypeOK ==
    /\ pc \in {"discogs", "discogs_wait", "discogs_check", "ebay", "ebay_wait",
               "web", "web_wait", "combine", "done"}
    /\ category \in Categories
    /\ plan \in [Adapters -> Outcomes]
    /\ calls \in [Adapters -> Nat]
    /\ inflight \subseteq Adapters
    /\ raised \in BOOLEAN

\* the call get_best_price(title, artist, category) is entered: sources = {}
Init ==
    /\ pc = "discogs"
    /\ category \in Categories
    /\ plan \in [Adapters -> Outcomes]
    /\ sources = <<>>
    /\ calls = [a \in Adapters |-> 0]
    /\ inflight = {}
    /\ log = <<>>
    /\ result = NoResult
    /\ raised = FALSE
    /\ NormIdle
    /\ RulesIdle
    /\ IngestIdle
    /\ AdapterIdle
    /\ FetchIdle
    /\ TokenIdle
    /\ LoginIdle
    /\ SessionIdle

\* an adapter is invoked
Invoke(a) ==
    /\ calls' = [calls EXCEPT ![a] = @ + 1]
    /\ inflight' = inflight \cup {a}
    /\ log' = Append(log, <<"call", a>>)

\* an adapter call returns or raises, inside its try block: an exception is
\* caught by `except Exception`, a value is normalized and kept when truthy
Settle(a) ==
    /\ inflight' = inflight \ {a}
    /\ log' = Append(log, <<"return", a>>)
    /\ sources' =
         IF plan[a].t = "raise" THEN sources
         ELSE LET p == Normalized[plan[a]]
              IN  IF Truthy(p) THEN Put(sources, a, p) ELSE sources

\* the Discogs lookup is started and not awaited
CallDiscogsNoWait ==
    /\ pc = "discogs"
    /\ Invoke("Discogs")
    /\ pc' = "ebay"
    /\ UNCHANGED <<category, plan, sources, result, raised>>
    /\ UNCHANGED outsideAggregator

\* line 40: get_discogs_price(title, artist) is called
CallDiscogs ==
    /\ pc = "discogs"
    /\ Invoke("Discogs")
    /\ pc' = "discogs_wait"
    /\ UNCHANGED <<category, plan, sources, result, raised>>
    /\ UNCHANGED outsideAggregator

\* lines 40-46
ReturnDiscogs ==
    /\ pc = "discogs_wait"
    /\ Settle("Discogs")
    /\ pc' = "discogs_check"
    /\ UNCHANGED <<category, plan, calls, result, raised>>
    /\ UNCHANGED outsideAggregator

\* a check that never returns early
CheckDiscogsNoShortCircuit ==
    /\ pc = "discogs_check"
    /\ log' = Append(log, <<"check", "Discogs">>)
    /\ pc' = "ebay"
    /\ UNCHANGED <<category, plan, sources, calls, inflight, result, raised>>
    /\ UNCHANGED outsideAggregator

\* lines 49-55
CheckDiscogs ==
    /\ pc = "discogs_check"
    /\ log' = Append(log, <<"check", "Discogs">>)
    /\ IF "Discogs" \in Keys(sources)
       THEN /\ result' = AuthoritativeResult(sources)
            /\ pc' = "done"
       ELSE /\ result' = result
            /\ pc' = "ebay"
    /\ UNCHANGED <<category, plan, sources, calls, inflight, raised>>
    /\ UNCHANGED outsideAggregator

\* line 59: get_ebay_price(title, category) is called
CallEbay ==
    /\ pc = "ebay"
    /\ Invoke("eBay")
    /\ pc' = "ebay_wait"
    /\ UNCHANGED <<category, plan, sources, result, raised>>
    /\ UNCHANGED outsideAggregator

\* the eBay lookup without its try/except: an exception leaves the function
ReturnEbayUncaught ==
    /\ pc = "ebay_wait"
    /\ IF plan["eBay"].t = "raise"
       THEN /\ inflight' = inflight \ {"eBay"}
            /\ log' = Append(log, <<"return", "eBay">>)
            /\ raised' = TRUE
            /\ pc' = "done"
            /\ UNCHANGED sources
       ELSE /\ Settle("eBay")
            /\ pc' = "web"
            /\ UNCHANGED raised
    /\ UNCHANGED <<category, plan, calls, result>>
    /\ UNCHANGED outsideAggregator

\* one try block around both lookups: an eBay exception skips the web search
ReturnEbaySkipsWeb ==
    /\ pc = "ebay_wait"
    /\ Settle("eBay")
    /\ pc' = IF plan["eBay"].t = "raise" THEN "combine" ELSE "web"
    /\ UNCHANGED <<category, plan, calls, result, raised>>
    /\ UNCHANGED outsideAggregator

\* a failed or empty eBay lookup is tried once more
ReturnEbayRetry ==
    /\ pc = "ebay_wait"
    /\ Settle("eBay")
    /\ pc' = IF "eBay" \notin Keys(sources') /\ calls["eBay"] < 2 THEN "ebay" ELSE "web"
    /\ UNCHANGED <<category, plan, calls, result, raised>>
    /\ UNCHANGED outsideAggregator

\* lines 59-65
ReturnEbay ==
    /\ pc = "ebay_wait"
    /\ Settle("eBay")
    /\ pc' = "web"
    /\ UNCHANGED <<category, plan, calls, result, raised>>
    /\ UNCHANGED outsideAggregator

\* line 69: get_web_price(title) is called
CallWeb ==
    /\ pc = "web"
    /\ Invoke("WebSearch")
    /\ pc' = "web_wait"
    /\ UNCHANGED <<category, plan, sources, result, raised>>
    /\ UNCHANGED outsideAggregator

\* lines 69-75
ReturnWeb ==
    /\ pc = "web_wait"
    /\ Settle("WebSearch")
    /\ pc' = "combine"
    /\ UNCHANGED <<category, plan, calls, result, raised>>
    /\ UNCHANGED outsideAggregator

\* lines 78-94
Combine ==
    /\ pc = "combine"
    /\ IF sources # <<>>
       THEN \E avg \in WeightedAvg(sources) :
                result' = [sources |-> FloatItems(sources),
                           final_price |-> avg,
                           note |-> NoKey]
       ELSE result' = NoneFoundResult
    /\ pc' = "done"
    /\ UNCHANGED <<category, plan, sources, calls, inflight, log, raised>>
    /\ UNCHANGED outsideAggregator

Next ==
    \/ CallDiscogs
    \/ ReturnDiscogs
    \/ CheckDiscogs
    \/ CallEbay
    \/ ReturnEbay
    \/ CallWeb
    \/ ReturnWeb
    \/ Combine

Spec == Init /\ [][Next]_vars

(***************************************************************************)
(* Properties                                                              *)
(***************************************************************************)
\* the adapter's planned outcome is a value that normalizes to an amount
Yields(a) == plan[a].t # "raise" /\ Normalized[plan[a]].t = "Decimal"

\* that amount, as a float in mills
Amount(a) == Float(Normalized[plan[a]]).mills

Returned == pc = "done" /\ ~raised

AuthoritativeNote == "Discogs authoritative source used."

\* C1: whenever Discogs yields a sample that normalizes to a positive amount,
\* the result's final_price is that amount, its sources are exactly
\* {Discogs: amount}, and neither eBay nor the web search is ever invoked in
\* the call, whatever they would have returned.
C1_AuthoritativeShortCircuit ==
    (Yields("Discogs") /\ Amount("Discogs") > 0) =>
        /\ calls["eBay"] = 0
        /\ calls["WebSearch"] = 0
        /\ Returned =>
             /\ result.final_price = PyFloat(Amount("Discogs"))
             /\ result.sources = <<[k |-> "Discogs", v |-> PyFloat(Amount("Discogs"))]>>

C1_Witness ==
    /\ Returned
    /\ Yields("Discogs") /\ Yields("eBay") /\ Yields("WebSearch")
    /\ Amount("Discogs") # Amount("eBay")
    /\ result.note = AuthoritativeNote

\* C2: for a query whose category is not media the Discogs sample never
\* becomes the final price: the result is not the authoritative one and has
\* no Discogs entry, even when Discogs would yield a sample.
C2_NonMediaNeverAuthoritative ==
    (Returned /\ category # "media") =>
        /\ "Discogs" \notin Keys(result.sources)
        /\ result.note # AuthoritativeNote

\* positions of an event in the log
At(ev) == {i \in 1..Len(log) : log[i] = ev}

\* C3: the Discogs call has returned (or failed) and its result has been
\* checked before eBay or the web search is invoked; neither is started
\* while the Discogs call is outstanding.
C3_AuthoritativeFirst ==
    /\ \A a \in {"eBay", "WebSearch"} : \A i \in At(<<"call", a>>) :
          \E j \in At(<<"return", "Discogs">>) : \E k \in At(<<"check", "Discogs">>) :
              j < k /\ k < i
    /\ (inflight \cap {"eBay", "WebSearch"} # {}) => "Discogs" \notin inflight

C3_Witness ==
    /\ pc = "web_wait"
    /\ At(<<"call", "eBay">>) # {}
    /\ At(<<"call", "WebSearch">>) # {}

\* |x|
Abs(x) == IF x < 0 THEN -x ELSE x

\* C4: when Discogs yields nothing and eBay (0.75) or the web search (0.25)
\* yields a sample, final_price is a whole number of cents nearest to
\* (sum of weight * amount) / (sum of the weights present); eBay 10.00 with
\* web 20.00 gives 12.50, and a single source gives its own amount rounded to
\* cents.
C4_WeightedFallback ==
    (Returned /\ ~Yields("Discogs") /\ (Yields("eBay") \/ Yields("WebSearch"))) =>
        LET fp == result.final_price
            e == Amount("eBay")
            w == Amount("WebSearch")
        IN  /\ fp.t = "float"
            /\ fp.mills % 10 = 0
            /\ (Yields("eBay") /\ Yields("WebSearch")) =>
                   Abs(100 * fp.mills - (75 * e + 25 * w)) <= 500
            /\ (Yields("eBay") /\ Yields("WebSearch") /\ e = 10000 /\ w = 20000) =>
                   fp.mills = 12500
            /\ (Yields("eBay") /\ ~Yields("WebSearch")) => Abs(fp.mills - e) <= 5
            /\ (~Yields("eBay") /\ Yields("WebSearch")) => Abs(fp.mills - w) <= 5

C4_Witness ==
    /\ Returned
    /\ ~Yields("Discogs") /\ ~Yields("eBay") /\ Yields("WebSearch")
    /\ Amount("WebSearch") = 20000
    /\ result.final_price = PyFloat(20000)

\* C5: when every adapter that is called yields absence (None, an
\* unparseable value, a non-positive value), the call returns sources = {},
\* final_price = None and a non-empty note, and does not raise.
C5_AllAbsent ==
    (pc = "done" /\ \A a \in Adapters : calls[a] > 0 => (plan[a].t # "raise" /\ ~Yields(a))) =>
        /\ ~raised
        /\ result # NoResult
        /\ result.sources = <<>>
        /\ result.final_price = None
        /\ result.note \notin {"", NoKey}

C5_Witness ==
    /\ Returned
    /\ plan["Discogs"] = None
    /\ plan["eBay"] = PyStr(StrGarbage)
    /\ plan["WebSearch"] = PyFloat(0)
    /\ result.sources = <<>>

\* C6: get_best_price never raises: whatever each adapter does (raise, None,
\* any value), the call goes on until it returns a result mapping, and an
\* adapter that raised has no entry in sources.
C6_NeverRaises ==
    /\ ~raised
    /\ pc # "done" => ENABLED Next
    /\ pc = "done" =>
          /\ result # NoResult
          /\ \A a \in Adapters : plan[a].t = "raise" => a \notin Keys(result.sources)

C6_Witness ==
    /\ Returned
    /\ plan["Discogs"].t = "raise"
    /\ plan["eBay"].t = "raise"
    /\ Yields("WebSearch")
    /\ Keys(result.sources) = {"WebSearch"}

\* C7: whenever Discogs yields nothing, both eBay and the web search are
\* invoked; a failure or absence of one does not keep the other from being
\* called and its sample from being included.
C7_Independent ==
    (pc = "done" /\ ~Yields("Discogs")) =>
        /\ calls["eBay"] = 1
        /\ calls["WebSearch"] = 1
        /\ \A a \in {"eBay", "WebSearch"} :
              Yields(a) => (a \in Keys(result.sources)
                            /\ Get(result.sources, a) = PyFloat(Amount(a)))

C7_Witness ==
    /\ Returned
    /\ ~Yields("Discogs")
    /\ plan["eBay"].t = "raise"
    /\ "WebSearch" \in Keys(result.sources)

\* C8: final_price, when present, is positive and has exactly two
\* fractional digits, whatever positive amount an adapter yields.
C8_FinalPriceShape ==
    (Returned /\ result.final_price # None) =>
        /\ result.final_price.mills > 0
        /\ result.final_price.mills % 10 = 0

\* the position of a key in a dict
IndexOf(d, key) == CHOOSE i \in 1..Len(d) : d[i].k = key

\* C9: sources has an entry for an adapter iff the adapter was called and its
\* value normalized to a positive amount; the entry is that amount; eBay
\* comes before WebSearch when both are present.
C9_SourcesContents ==
    Returned =>
        LET s == result.sources IN
        /\ \A a \in Adapters :
              /\ a \in Keys(s) <=> (calls[a] > 0 /\ Yields(a) /\ Amount(a) > 0)
              /\ a \in Keys(s) => Get(s, a) = PyFloat(Amount(a))
        /\ Cardinality(Keys(s)) = Len(s)
        /\ {"eBay", "WebSearch"} \subseteq Keys(s) =>
              IndexOf(s, "eBay") < IndexOf(s, "WebSearch")

C9_Witness ==
    /\ Returned
    /\ Len(result.sources) = 2
    /\ result.sources[1].k = "eBay"
    /\ result.sources[2].k = "WebSearch"
    /\ plan["Discogs"] = PyFloat(-5000)

\* C10: within one call each adapter is invoked at most once; a call that
\* fails or yields absence is not made again.
C10_NoRetry == \A a \in Adapters : calls[a] <= 1

C10_Witness ==
    /\ Returned
    /\ plan["Discogs"] = None
    /\ plan["eBay"].t = "raise"
    /\ plan["WebSearch"] = None
    /\ calls = [a \in Adapters |-> 1]

(***************************************************************************)
(* _normalize_price on its own                                             *)
(***************************************************************************)
\* longest generated string given to _normalize_price
MaxNormLen == 3

NormAlphabet == {"$", ",", ".", "-", " ", "0", "1", "a"}

\* "1234.50"
StrPlain == <<"1", "2", "3", "4", ".", "5", "0">>

NormInputs ==
    {None, PyObj}
    \cup {PyFloat(1234500), PyFloat(4), PyFloat(0), PyFloat(-5000)}
    \cup {PyStr(StrDollarComma), PyStr(StrPlain), PyStr(StrPadded)}
    \cup {PyStr(s) : s \in UNION {[1..n -> NormAlphabet] : n \in 0..MaxNormLen}}

\* get_best_price is not running
AggIdle ==
    /\ pc = "idle"
    /\ category = "general"
    /\ plan = [a \in Adapters |-> None]
    /\ sources = <<>>
    /\ calls = [a \in Adapters |-> 0]
    /\ inflight = {}
    /\ log = <<>>
    /\ result = NoResult
    /\ raised = FALSE

NormInit ==
    /\ nvalue \in NormInputs
    /\ nout = NotCalled
    /\ AggIdle
    /\ RulesIdle
    /\ IngestIdle
    /\ AdapterIdle
    /\ FetchIdle
    /\ TokenIdle
    /\ LoginIdle
    /\ SessionIdle

\* the call _normalize_price(nvalue)
NormalizeCall ==
    /\ nout = NotCalled
    /\ nout' = _normalize_price(nvalue)
    /\ UNCHANGED nvalue
    /\ UNCHANGED outsideNormalizer

NormNext == NormalizeCall

SpecNormalize == NormInit /\ [][NormNext]_vars

\* the characters of a string that are digits
DigitsOf(s) == SelectSeq(s, LAMBDA c : c \in Digits)

\* C11: _normalize_price returns the number its input writes once every "$"
\* and "," is removed, so "$1,234.50", 1234.5 and "1234.50" all give 1234.50;
\* it returns None, never an exception and never a zero or negative amount,
\* for None, non-numeric content, zero and negative values.
C11_Normalizer ==
    nout # NotCalled =>
        /\ nout = None \/ (nout.t = "Decimal" /\ nout.coef > 0)
        /\ nvalue \in {PyStr(StrDollarComma), PyStr(StrPlain), PyFloat(1234500)} =>
               (nout.t = "Decimal" /\ Float(nout) = PyFloat(1234500))
        /\ nvalue.t \in {"None", "obj"} => nout = None
        /\ (nvalue.t = "float" /\ nvalue.mills <= 0) => nout = None
        /\ (nvalue.t = "float" /\ nvalue.mills > 0) =>
               (nout.t = "Decimal" /\ Float(nout) = nvalue)
        /\ nvalue.t = "str" =>
             LET s == nvalue.s
                 ds == DigitsOf(s)
             IN  /\ (\E i \in 1..Len(s) : s[i] \in {"a", "-"}) => nout = None
                 /\ (\A i \in 1..Len(ds) : ds[i] = "0") => nout = None
                 /\ ((\A i \in 1..Len(s) : s[i] \in Digits \cup {"$", ","})
                     /\ \E i \in 1..Len(ds) : ds[i] # "0") =>
                        (nout.t = "Decimal" /\ nout.exp = 0
                         /\ nout.coef = DigitsToInt(ds, Len(ds)))

C11_Witness ==
    /\ nvalue = PyStr(StrDollarComma)
    /\ nout = PyDecimal(123450, -2)

(***************************************************************************)
(* apply_pricing_rules (src/app/pricing.py)                                *)
(*                                                                         *)
(* A fields mapping is a dict like `sources`: a sequence of [k, v].  Its   *)
(* values are strings, numbers (PyFloat, in mills) or None.  Numbers       *)
(* written in a string have at most three fractional digits.               *)
(***************************************************************************)
DigitChars == <<"0", "1", "2", "3", "4", "5", "6", "7", "8", "9">>

\* str(n) for an integer n >= 0
RECURSIVE IntToStr(_)
IntToStr(n) ==
    IF n < 10 THEN <<DigitChars[n + 1]>>
    ELSE IntToStr(n \div 10) \o <<DigitChars[(n % 10) + 1]>>

\* f"{num:.2f}" for a float that is a whole number of cents
Format2(mills) ==
    LET a == IF mills < 0 THEN -mills ELSE mills
        c == (a % 1000) \div 10
    IN  (IF mills < 0 THEN <<"-">> ELSE <<>>)
        \o IntToStr(a \div 1000) \o <<".">>
        \o <<DigitChars[(c \div 10) + 1], DigitChars[(c % 10) + 1]>>

\* f"${num:.2f}"
Dollar(mills) == <<"$">> \o Format2(mills)

\* key = "Price" if type_ == "comic" else "Final Price"
PriceKey(type) == IF type = "comic" THEN "Price" ELSE "Final Price"

\* fields.get(key, "")
GetOr(d, key, default) == IF key \in Keys(d) THEN Get(d, key) ELSE default

\* isinstance(val, str) and val.strip().startswith("$")
AlreadyFormatted(val) ==
    /\ val.t = "str"
    /\ Strip(val.s) # <<>>
    /\ Head(Strip(val.s)) = "$"

\* the length of the run of digits of s that starts at position i
RECURSIVE DigitRun(_, _)
DigitRun(s, i) ==
    IF i <= Len(s) /\ s[i] \in Digits THEN 1 + DigitRun(s, i + 1) ELSE 0

\* float(re.search(r"(\d+(\.\d+)?)", s).group(1)): the first run of digits,
\* with a "." and the digits after it when they follow; None without a digit
FirstNumber(s) ==
    LET at == {i \in 1..Len(s) : s[i] \in Digits}
    IN  IF at = {} THEN None
        ELSE LET i == CHOOSE x \in at : \A y \in at : x <= y
                 n == DigitRun(s, i)
                 j == i + n
                 m == IF j <= Len(s) /\ s[j] = "." THEN DigitRun(s, j + 1) ELSE 0
                 int == DigitsToInt(SubSeq(s, i, j - 1), n)
                 frac == DigitsToInt(SubSeq(s, j + 1, j + m), m)
             IN  PyFloat(int * 1000 + frac * Pow10(3 - m))

\* lines 22-28: the number in val, or None
ExtractNumber(val) ==
    CASE val.t = "float" -> val
      [] val.t = "str" -> FirstNumber(val.s)
      [] OTHER -> None

\* lines 35-38: the floors
ApplyFloor(type, mills) ==
    IF type = "comic" /\ mills < 4000 THEN 4000
    ELSE IF type = "card" /\ mills < 1000 THEN 1000
    ELSE mills

\* round(x) of a float given in mills: to the nearest integer, an exact
\* half to the even one
RoundHalfEven(mills) ==
    LET q == mills \div 1000
        r == mills % 1000
    IN  IF r < 500 THEN q
        ELSE IF r > 500 THEN q + 1
        ELSE IF q % 2 = 0 THEN q ELSE q + 1

\* a rounding that takes a price above 5 to the nearest whole unit
RoundPriceNearest(mills) ==
    IF mills > 5000 THEN RoundHalfEven(mills) * 1000
    ELSE RoundHalfEven(2 * mills) * 500

\* lines 41-44: the rounding rules
RoundPrice(mills) ==
    IF mills > 5000
    THEN IF mills % 1000 = 0 THEN mills ELSE ((mills \div 1000) + 1) * 1000
    ELSE RoundHalfEven(2 * mills) * 500

\* line 51: the price written when no number was found
MinimumPrice(type) == IF type = "comic" THEN Dollar(4000) ELSE Dollar(1000)

\* rules without the early return, which move every price above 5 up by a
\* whole unit
RulesNoPassThroughBump(type, fields) ==
    LET key == PriceKey(type)
        num == ExtractNumber(GetOr(fields, key, PyStr(<<>>)))
    IN  IF num # None
        THEN LET f == ApplyFloor(type, num.mills)
             IN  Put(fields, key,
                     PyStr(Dollar(IF f > 5000 THEN ((f \div 1000) + 1) * 1000
                                  ELSE RoundPrice(f))))
        ELSE Put(fields, key, PyStr(MinimumPrice(type)))

apply_pricing_rules(type, fields) ==
    LET key == PriceKey(type)
        val == GetOr(fields, key, PyStr(<<>>))
    IN  IF AlreadyFormatted(val) THEN fields
        ELSE LET num == ExtractNumber(val)
             IN  IF num # None
                 THEN Put(fields, key,
                          PyStr(Dollar(RoundPrice(ApplyFloor(type, num.mills)))))
                 ELSE Put(fields, key, PyStr(MinimumPrice(type)))

(***************************************************************************)
(* The rules applied to a fields mapping, once and again.                  *)
(***************************************************************************)
MaxQuarters == 28
MaxApplications == 2

RuleTypes == {"comic", "card", "record", "misc", "anything"}

\* a key that is not in the mapping
Absent == [t |-> "absent"]

StrNine == <<"$", "9", ".", "0", "0">>
StrCommaNumber == <<"1", ",", "2", "3", "4", ".", "5", "0">>

\* the values a price entry is given: every quarter up to MaxQuarters as
\* text, and the shapes a caller or the vision step can hand over
PriceValues ==
    {PyStr(Format2(k * 250)) : k \in 0..MaxQuarters}
    \cup {PyStr(StrNine), PyStr(<<" ">> \o StrNine), PyStr(<<"$", "9">>),
          PyStr(StrGarbage), PyStr(<<>>), PyStr(StrNegative),
          PyStr(StrCommaNumber), PyStr(<<"2">>), PyStr(<<".", "5">>),
          PyStr(<<"6", ".", "2", "0">>), PyStr(<<"3", ".", "2", "0">>),
          PyStr(<<"5", ".", "0", "1">>), PyStr(<<"2", ".", "5", ".", "1">>),
          PyStr(<<"a", " ", "1", "2", " ", "7">>)}
    \cup {None, PyFloat(6200), PyFloat(7000), PyFloat(1250), PyFloat(4250),
          PyFloat(500), PyFloat(-3000)}

FewValues == {Absent, PyStr(StrNine), PyStr(<<"2">>)}

Entry(key, val) == IF val = Absent THEN <<>> ELSE <<[k |-> key, v |-> val]>>

RulesInputs ==
    LET Bases == {<<>>, <<[k |-> "Title", v |-> PyStr(<<"x">>)]>>}
        Pairs == ((PriceValues \cup {Absent}) \X FewValues)
                 \cup (FewValues \X (PriceValues \cup {Absent}))
    IN  {b \o Entry("Price", pr[1]) \o Entry("Final Price", pr[2]) :
            b \in Bases, pr \in Pairs}

RulesInit ==
    /\ rtype \in RuleTypes
    /\ rfields \in RulesInputs
    /\ rhist = <<>>
    /\ AggIdle
    /\ NormIdle
    /\ IngestIdle
    /\ AdapterIdle
    /\ FetchIdle
    /\ TokenIdle
    /\ LoginIdle
    /\ SessionIdle

\* fields = await apply_pricing_rules(type, fields)
ApplyRules ==
    /\ Len(rhist) < MaxApplications
    /\ rfields' = apply_pricing_rules(rtype, rfields)
    /\ rhist' = Append(rhist, rfields)
    /\ UNCHANGED rtype
    /\ UNCHANGED outsideRules

RulesNext == ApplyRules

SpecRules == RulesInit /\ [][RulesNext]_vars

(***************************************************************************)
(* Properties of apply_pricing_rules                                       *)
(***************************************************************************)
\* the rules have been applied at least once
Applied == Len(rhist) >= 1

\* the mapping handed to the first application, and the mapping after it
Given == rhist[1]
Once == IF Len(rhist) >= 2 THEN rhist[2] ELSE rfields

\* the value the first application read, under the key the code uses
ReadValue == GetOr(Given, PriceKey(rtype), PyStr(<<>>))

\* the amount, in mills, of a price written as "$d.dd" or "$-d.dd"
WrittenMills(val) ==
    LET m == FirstNumber(val.s).mills
    IN  IF Len(val.s) >= 2 /\ val.s[2] = "-" THEN -m ELSE m

\* a currency string: "$", digits, ".", two digits
IsCurrency(val) ==
    /\ val.t = "str"
    /\ Len(val.s) >= 5
    /\ val.s[1] = "$"
    /\ val.s[Len(val.s) - 2] = "."
    /\ \A i \in 2..Len(val.s) : i # Len(val.s) - 2 => val.s[i] \in Digits

\* the categories the specification names, with their minimum in mills
NamedMinimum == [comic |-> 4000, record |-> 4000, card |-> 1000, misc |-> 3000]

\* C12: a mapping {"Price": "$9.00"} comes back unchanged from
\* apply_pricing_rules, whatever the category.
C12_PassThrough ==
    (Applied /\ Given = <<[k |-> "Price", v |-> PyStr(StrNine)]>>)
        => Once = Given

\* C13: for every category, a Price entry that is not already "$"-prefixed
\* is rewritten in place to a currency string.
C13_NormalizesPriceKey ==
    (Applied /\ "Price" \in Keys(Given) /\ ~AlreadyFormatted(Get(Given, "Price")))
        => IsCurrency(Get(Once, "Price"))

\* C14: the price the rules write is at least the category's floor: 4.00 for
\* comic and record, 1.00 for card, 3.00 for misc.
C14_Floors ==
    (/\ Applied
     /\ rtype \in DOMAIN NamedMinimum
     /\ ~AlreadyFormatted(ReadValue)
     /\ ExtractNumber(ReadValue) # None)
        => WrittenMills(Get(Once, PriceKey(rtype))) >= NamedMinimum[rtype]

\* C15: when the price read is absent or holds no number, the price written
\* is exactly the category minimum: $4 comic, $4 record, $1 card, $3 misc.
C15_Fallback ==
    (/\ Applied
     /\ rtype \in DOMAIN NamedMinimum
     /\ ~AlreadyFormatted(ReadValue)
     /\ ExtractNumber(ReadValue) = None)
        => Get(Once, PriceKey(rtype)) = PyStr(Dollar(NamedMinimum[rtype]))

\* C16: a floored value above 5 is written as a whole amount: itself when
\* it is whole, otherwise the next whole amount above it, so never less than
\* the floored value.
C16_RoundUpAboveFive ==
    (/\ Applied
     /\ ~AlreadyFormatted(ReadValue)
     /\ ExtractNumber(ReadValue) # None
     /\ ApplyFloor(rtype, ExtractNumber(ReadValue).mills) > 5000)
        => LET f == ApplyFloor(rtype, ExtractNumber(ReadValue).mills)
               w == WrittenMills(Get(Once, PriceKey(rtype)))
           IN  /\ Get(Once, PriceKey(rtype)) = PyStr(Dollar(w))
               /\ w % 1000 = 0
               /\ f <= w
               /\ w < f + 1000

C16_Witness ==
    /\ rtype = "comic"
    /\ Applied
    /\ Given = <<[k |-> "Price", v |-> PyStr(<<"6", ".", "2", "0">>)]>>
    /\ rfields = <<[k |-> "Price", v |-> PyStr(<<"$", "7", ".", "0", "0">>)]>>

\* C17: a floored value of at most 5 is written as the nearest half unit,
\* an exact quarter going up (1.25 gives 1.50, 4.25 gives 4.50, 0.75 gives
\* 1.00).
C17_HalfUpAtMostFive ==
    (/\ Applied
     /\ ~AlreadyFormatted(ReadValue)
     /\ ExtractNumber(ReadValue) # None
     /\ ApplyFloor(rtype, ExtractNumber(ReadValue).mills) <= 5000)
        => LET f == ApplyFloor(rtype, ExtractNumber(ReadValue).mills)
           IN  Get(Once, PriceKey(rtype))
                   = PyStr(Dollar(((2 * f + 500) \div 1000) * 500))

\* C19: applying the rules to their own result changes nothing:
\* f(f(x)) = f(x) for every mapping x.
C19_Idempotent ==
    \A i \in 2..Len(rhist) : rhist[i] = rfields

C19_Witness ==
    /\ rtype = "comic"
    /\ Len(rhist) = 2
    /\ rhist[1] = <<[k |-> "Price", v |-> PyStr(<<"6", ".", "2", "0">>)]>>
    /\ rhist[2] = <<[k |-> "Price", v |-> PyStr(<<"$", "7", ".", "0", "0">>)]>>
    /\ rfields = rhist[2]

(***************************************************************************)
(* The ingest handler (src/app/main.py) and the schema normalisation of    *)
(* extract_fields_with_vision (src/app/vision.py).                         *)
(*                                                                         *)
(* Of the descriptive columns only the title is kept; the others are       *)
(* carried as text in the same way.  A JSON integer in the vision answer   *)
(* reads like the same digits given as text.                               *)
(***************************************************************************)
IngestTypes == {"card", "comic", "record", "anything"}

StrNone == <<"N", "o", "n", "e">>

\* repr() of a float with at most three fractional digits
FloatRepr(mills) ==
    LET a == IF mills < 0 THEN -mills ELSE mills
        r == a % 1000
        frac == IF r % 100 = 0 THEN <<DigitChars[(r \div 100) + 1]>>
                ELSE IF r % 10 = 0
                     THEN <<DigitChars[(r \div 100) + 1],
                            DigitChars[((r \div 10) % 10) + 1]>>
                     ELSE <<DigitChars[(r \div 100) + 1],
                            DigitChars[((r \div 10) % 10) + 1],
                            DigitChars[(r % 10) + 1]>>
    IN  (IF mills < 0 THEN <<"-">> ELSE <<>>)
        \o IntToStr(a \div 1000) \o <<".">> \o frac

\* str(v) for a value of the parsed answer
StrOf(val) ==
    CASE val.t = "str" -> val.s
      [] val.t = "float" -> FloatRepr(val.mills)
      [] OTHER -> StrNone

\* enforce_price(value, minimum): the strings it can return (two when the
\* amount lies exactly between two cents, see Round2)
enforce_price(value, minimum) ==
    IF value = <<>> THEN {minimum}
    ELSE LET num == DecimalFromStr(Replace(Strip(value), "$"))
         IN  IF num = ConversionError THEN {minimum}
             ELSE IF Float(num).mills <= 0 THEN {minimum}
             ELSE {Dollar(c.mills) : c \in Round2(Float(num).mills, 1)}

TitleColumn(type) == IF type = "comic" THEN "Title & Issue" ELSE "Title"

\* COMIC_COLUMNS, CARD_COLUMNS, RECORD_COLUMNS, ANYTHING_COLUMNS
Columns(type) ==
    <<TitleColumn(type), "Price", "Inventory #", "Barcode">>
    \o (IF type \in {"comic", "card", "record"} THEN <<>> ELSE <<"AI Notes">>)

\* the minimum handed to enforce_price
VisionMinimum(type) ==
    CASE type \in {"comic", "record"} -> Dollar(4000)
      [] type = "card" -> Dollar(1000)
      [] OTHER -> Dollar(3000)

StrUnrecognized == <<"?">>
StrDefaultNotes == <<"n">>

\* lines 215-242: the mappings extract_fields_with_vision can return for
\* the parsed answer `data` ({} when the model call or the parsing failed)
NormalizeSchema(type, data) ==
    LET cols == Columns(type)
        ordered == [i \in 1..Len(cols) |->
                       [k |-> cols[i],
                        v |-> PyStr(StrOf(GetOr(data, cols[i], PyStr(<<>>))))]]
        Blank(d) == \A i \in 1..Len(d) : d[i].v.s = <<>>
        Notes(d) == IF "AI Notes" \in Keys(d) /\ Get(d, "AI Notes").s = <<>>
                    THEN Put(d, "AI Notes", PyStr(StrDefaultNotes)) ELSE d
        Named(d) == IF Blank(d)
                    THEN Put(d, TitleColumn(type), PyStr(StrUnrecognized)) ELSE d
    IN  {Named(Notes(Put(ordered, "Price", PyStr(p)))) :
            p \in enforce_price(Get(ordered, "Price").s, VisionMinimum(type))}

VisionPrices ==
    {PyStr(Format2(k * 250)) : k \in 0..MaxQuarters}
    \cup {PyStr(Dollar(k * 250)) : k \in 0..MaxQuarters}
    \cup {PyStr(<<>>), PyStr(StrGarbage), PyStr(StrNegative), PyStr(StrCommaNumber),
          PyStr(<<"$", " ", "3">>), PyStr(<<" ", "$", "5", " ">>),
          PyStr(<<"2", ".", "3", "0">>), PyStr(<<"$", "2", ".", "3", "0">>),
          PyStr(<<"1", "2", ".", "3", "4", "5">>), PyStr(<<"0", ".", "1", "2", "5">>),
          PyStr(<<".", "5">>), PyStr(<<"5", ".">>), PyStr(<<"6", ".", "2", "0">>)}
    \cup {None, Absent, PyFloat(2300), PyFloat(6000), PyFloat(0)}

VisionData ==
    {Entry("Title", ti) \o Entry("Price", pr) \o Entry("AI Notes", no) :
        ti \in {Absent, PyStr(<<"x">>)}, pr \in VisionPrices,
        no \in {Absent, PyStr(<<"x">>)}}

InventoryNumbers == {PyStr(<<"1">>), PyStr(<<"2">>)}

IngestInit ==
    /\ ireq \in [type : IngestTypes \cup {"book"}, image : {"ok", "bad"}]
    /\ ivision \in VisionData
    /\ ipc = "received"
    /\ ifields = <<>>
    /\ idraft = NoDraft
    /\ AggIdle
    /\ NormIdle
    /\ RulesIdle
    /\ AdapterIdle
    /\ FetchIdle
    /\ TokenIdle
    /\ LoginIdle
    /\ SessionIdle

\* lines 48-55: an unknown type or an image that does not open is a 400
IngestReject ==
    /\ ipc = "received"
    /\ ireq.type \notin IngestTypes \/ ireq.image = "bad"
    /\ ipc' = "rejected"
    /\ UNCHANGED <<ireq, ivision, ifields, idraft>>
    /\ UNCHANGED outsideIngest

\* line 57: fields = await extract_fields_with_vision(img, type)
IngestExtract ==
    /\ ipc = "received"
    /\ ireq.type \in IngestTypes
    /\ ireq.image = "ok"
    /\ ifields' \in NormalizeSchema(ireq.type, ivision)
    /\ ipc' = "extracted"
    /\ UNCHANGED <<ireq, ivision, idraft>>
    /\ UNCHANGED outsideIngest

\* line 58: fields = await apply_pricing_rules(type, fields)
IngestRules ==
    /\ ipc = "extracted"
    /\ ifields' = apply_pricing_rules(ireq.type, ifields)
    /\ ipc' = "priced"
    /\ UNCHANGED <<ireq, ivision, idraft>>
    /\ UNCHANGED outsideIngest

\* lines 61-71: the inventory number is added and the draft is written
IngestSave ==
    /\ ipc = "priced"
    /\ \E inv_num \in InventoryNumbers :
          ifields' = Put(ifields, "Inventory #", inv_num)
    /\ idraft' = [type |-> ireq.type, fields |-> ifields']
    /\ ipc' = "saved"
    /\ UNCHANGED <<ireq, ivision>>
    /\ UNCHANGED outsideIngest

\* line 61: get_next_inventory_number raises; nothing catches it
IngestFail ==
    /\ ipc = "priced"
    /\ ipc' = "failed"
    /\ UNCHANGED <<ireq, ivision, ifields, idraft>>
    /\ UNCHANGED outsideIngest

IngestNext ==
    \/ IngestReject
    \/ IngestExtract
    \/ IngestRules
    \/ IngestSave
    \/ IngestFail

SpecIngest == IngestInit /\ [][IngestNext]_vars

\* the shop's convention for an amount: at least the minimum, whole above
\* 5, a multiple of a half up to 5
Quotable(mills, minimum) ==
    /\ mills >= minimum
    /\ mills > 5000 => mills % 1000 = 0
    /\ mills <= 5000 => mills % 500 = 0

\* C20: enforce_price never hands back a price below the minimum, and the
\* Price of every draft written by ingest is at least the category minimum
\* and obeys the rounding rule.
C20_DraftPriceConvention ==
    LET minimum == WrittenMills(PyStr(VisionMinimum(ireq.type)))
    IN  /\ ipc = "extracted"
            => WrittenMills(Get(ifields, "Price")) >= minimum
        /\ ipc = "saved"
            => Quotable(WrittenMills(Get(idraft.fields, "Price")), minimum)

(***************************************************************************)
(* The synchronous adapter wrappers: get_discogs_price                     *)
(* (src/pricing_tools/discogs.py), get_ebay_price (src/pricing_tools/      *)
(* ebay.py) and get_brave_price (src/pricing_tools/brave_search.py).       *)
(*                                                                         *)
(* A call is given one fault of its transport or configuration; the lookup *)
(* inside the wrapper's try ends by returning or by raising, and the       *)
(* wrapper turns either into what its caller gets.  Of a lookup's result   *)
(* mapping only the two price entries are kept.                            *)
(***************************************************************************)
Wrappers == {"get_discogs_price", "get_ebay_price", "get_brave_price"}

Faults ==
    {"none", "no results", "empty query", "timeout", "rate limited",
     "connection error", "non-2xx", "malformed JSON", "unexpected schema",
     "missing credentials", "token failure", "loop running"}

\* the two prices of a good answer: median, then lowest or average
Payloads ==
    {<<first, second>> : first \in {None, PyFloat(0), PyFloat(12500)},
                         second \in {None, PyFloat(7250)}}

Returns(val) == [t |-> "return", v |-> val]
Raises(exc) == [t |-> "exception", e |-> exc]

\* bool(x) of a price or None
PriceTruthy(val) == val.t = "float" /\ val.mills # 0

\* a or b
PyOr(a, b) == IF PriceTruthy(a) THEN a ELSE b

\* asyncio.run(_async_discogs_lookup(query)), discogs.py lines 27-139
DiscogsLookup(fault, payload) ==
    LET best == <<[k |-> "median_price", v |-> payload[1]],
                  [k |-> "lowest_price", v |-> payload[2]]>>
        found == IF PriceTruthy(payload[1]) \/ PriceTruthy(payload[2])
                 THEN {Returns(best)} ELSE {Returns(<<>>)}
    IN  CASE fault = "loop running" -> {Raises("RuntimeError")}
          [] fault = "unexpected schema" -> {Raises("AttributeError"), Returns(<<>>)}
          [] fault = "none" -> found
          [] fault = "empty query" -> found \cup {Returns(<<>>)}
          [] OTHER -> {Returns(<<>>)}

\* asyncio.run(get_ebay_active_price(query=query)), ebay.py lines 32-128
EbayLookup(fault, payload) ==
    CASE fault = "loop running" -> {Raises("RuntimeError")}
      [] fault = "empty query" -> {Raises("ValueError")}
      [] fault = "missing credentials" -> {Raises("EnvironmentError")}
      [] fault = "token failure" -> {Raises("ConnectionError")}
      [] fault = "none" /\ payload[1] # None /\ payload[2] # None ->
            {Returns(<<[k |-> "median_price", v |-> payload[1]],
                       [k |-> "average_price", v |-> payload[2]]>>)}
      [] OTHER -> {Returns(<<>>)}

\* the body of get_brave_price's try, brave_search.py lines 37-61
BraveBody(fault, payload) ==
    CASE fault \in {"timeout", "connection error"} -> {Raises("RequestException")}
      [] fault = "malformed JSON" -> {Raises("ValueError")}
      [] fault = "unexpected schema" -> {Raises("AttributeError"), Returns(None)}
      [] fault \in {"none", "empty query", "loop running"} -> {Returns(payload[1])}
      [] OTHER -> {Returns(None)}

Lookup(name, fault, payload) ==
    CASE name = "get_discogs_price" -> DiscogsLookup(fault, payload)
      [] name = "get_ebay_price" -> EbayLookup(fault, payload)
      [] OTHER -> BraveBody(fault, payload)

\* what the wrapper returns for the lookup's result
WrapperValue(name, val) ==
    CASE name = "get_discogs_price" ->
            IF val = <<>> THEN None
            ELSE PyOr(Get(val, "median_price"), Get(val, "lowest_price"))
      [] name = "get_ebay_price" ->
            IF val = <<>> THEN None
            ELSE PyOr(Get(val, "median_price"), Get(val, "average_price"))
      [] OTHER -> val

AdapterInit ==
    /\ aname \in Wrappers
    /\ afault \in Faults
    /\ apayload \in Payloads
    /\ apc = "called"
    /\ ainner = NotCalled
    /\ aresult = NotCalled
    /\ AggIdle
    /\ NormIdle
    /\ RulesIdle
    /\ IngestIdle
    /\ FetchIdle
    /\ TokenIdle
    /\ LoginIdle
    /\ SessionIdle

\* brave_search.py lines 29-31: no key, None before the try
BraveNoKey ==
    /\ apc = "called"
    /\ aname = "get_brave_price"
    /\ afault = "missing credentials"
    /\ aresult' = None
    /\ apc' = "done"
    /\ UNCHANGED <<aname, afault, apayload, ainner>>
    /\ UNCHANGED outsideAdapter

InsideTry ==
    /\ apc = "called"
    /\ ~(aname = "get_brave_price" /\ afault = "missing credentials")

\* the lookup ends with a result
LookupReturns ==
    /\ InsideTry
    /\ \E o \in Lookup(aname, afault, apayload) :
          /\ o.t = "return"
          /\ ainner' = o
    /\ apc' = "returned"
    /\ UNCHANGED <<aname, afault, apayload, aresult>>
    /\ UNCHANGED outsideAdapter

\* the lookup ends with an exception
LookupRaises ==
    /\ InsideTry
    /\ \E o \in Lookup(aname, afault, apayload) :
          /\ o.t = "exception"
          /\ ainner' = o
    /\ apc' = "raised"
    /\ UNCHANGED <<aname, afault, apayload, aresult>>
    /\ UNCHANGED outsideAdapter

\* discogs.py lines 150-153, ebay.py lines 213-215, brave_search.py line 61
WrapperReturn ==
    /\ apc = "returned"
    /\ aresult' = WrapperValue(aname, ainner.v)
    /\ apc' = "done"
    /\ UNCHANGED <<aname, afault, apayload, ainner>>
    /\ UNCHANGED outsideAdapter

\* a wrapper without the except clause
WrapperReraise ==
    /\ apc = "raised"
    /\ aresult' = Raise
    /\ apc' = "done"
    /\ UNCHANGED <<aname, afault, apayload, ainner>>
    /\ UNCHANGED outsideAdapter

\* except Exception: log, return None
WrapperCatch ==
    /\ apc = "raised"
    /\ aresult' = None
    /\ apc' = "done"
    /\ UNCHANGED <<aname, afault, apayload, ainner>>
    /\ UNCHANGED outsideAdapter

AdapterNext ==
    \/ BraveNoKey
    \/ LookupReturns
    \/ LookupRaises
    \/ WrapperReturn
    \/ WrapperCatch

SpecAdapter == AdapterInit /\ [][AdapterNext]_vars

C25_FinalPriceIffSources ==
    Returned =>
        /\ result.final_price = None <=> result.sources = <<>>
        /\ result.sources # <<>> => result.final_price.t = "float"
        /\ (result.sources # <<>> /\ result.note = NoKey) => TotalW(sources) > 0

C25_Witness ==
    /\ Returned
    /\ Keys(result.sources) = {"WebSearch"}
    /\ result.final_price.t = "float"
    /\ TotalW(sources) = weights["WebSearch"]

(***************************************************************************)
(* Further properties of apply_pricing_rules                               *)
(***************************************************************************)
\* C26: whenever the rules write a price (the value read is not already
\* "$"-prefixed), what is written is "$" and a non-negative amount with two
\* fractional digits, a multiple of 0.50, and whole when above 5; for text
\* and for numbers of any sign, in every category.
C26_WrittenShape ==
    (Applied /\ ~AlreadyFormatted(ReadValue)) =>
        LET val == Get(Once, PriceKey(rtype))
            w == WrittenMills(val)
        IN  /\ IsCurrency(val)
            /\ w >= 0
            /\ w % 500 = 0
            /\ w > 5000 => w % 1000 = 0

(***************************************************************************)
(* _fetch_json (src/pricing_tools/discogs.py)                              *)
(*                                                                         *)
(* fplan[i] is what happens to the i-th HTTP request of the call: "ok" (200 *)
(* and a body that parses), "429", "timeout" (asyncio.TimeoutError from    *)
(* the request or from reading the body), "status" (any other status),     *)
(* "bad json" and "error" (any other exception).                           *)
(***************************************************************************)
MaxFetchRetries == 3

FetchOutcomes == {"ok", "429", "timeout", "status", "bad json", "error"}

\* the parsed body of a good answer
FetchedData == [t |-> "json"]

\* {}
EmptyDict == <<>>

FetchInit ==
    /\ fretries \in 0..MaxFetchRetries
    /\ fplan \in [1..fretries -> FetchOutcomes]
    /\ fattempt = 0
    /\ fpc = "loop"
    /\ frequests = 0
    /\ fsleeps = <<>>
    /\ fresult = NotCalled
    /\ AggIdle
    /\ NormIdle
    /\ RulesIdle
    /\ IngestIdle
    /\ AdapterIdle
    /\ TokenIdle
    /\ LoginIdle
    /\ SessionIdle

\* the request of this attempt is issued: session.get(...)
Requesting == fpc = "loop" /\ fattempt < fretries

\* line 44: return await resp.json()
FetchOk ==
    /\ Requesting
    /\ fplan[frequests + 1] = "ok"
    /\ frequests' = frequests + 1
    /\ fresult' = FetchedData
    /\ fpc' = "done"
    /\ UNCHANGED <<fretries, fplan, fattempt, fsleeps>>
    /\ UNCHANGED outsideFetch

\* lines 37-40 and 45-47: rate limited or timed out, sleep 2 ** attempt and
\* go round the loop
FetchBackoff ==
    /\ Requesting
    /\ fplan[frequests + 1] \in {"429", "timeout"}
    /\ frequests' = frequests + 1
    /\ fsleeps' = Append(fsleeps, 2 ^ fattempt)
    /\ fattempt' = fattempt + 1
    /\ UNCHANGED <<fretries, fplan, fpc, fresult>>
    /\ UNCHANGED outsideFetch

\* a loop that backs off and goes round on every failure
FetchBackoffOnAnyFailure ==
    /\ Requesting
    /\ fplan[frequests + 1] \in {"status", "bad json", "error"}
    /\ frequests' = frequests + 1
    /\ fsleeps' = Append(fsleeps, 2 ^ fattempt)
    /\ fattempt' = fattempt + 1
    /\ UNCHANGED <<fretries, fplan, fpc, fresult>>
    /\ UNCHANGED outsideFetch

\* lines 41-43 and 48-50: another status or another exception, {} at once
FetchGiveUp ==
    /\ Requesting
    /\ fplan[frequests + 1] \in {"status", "bad json", "error"}
    /\ frequests' = frequests + 1
    /\ fresult' = EmptyDict
    /\ fpc' = "done"
    /\ UNCHANGED <<fretries, fplan, fattempt, fsleeps>>
    /\ UNCHANGED outsideFetch

\* line 51: the loop is over, return {}
FetchExhausted ==
    /\ fpc = "loop"
    /\ fattempt >= fretries
    /\ fresult' = EmptyDict
    /\ fpc' = "done"
    /\ UNCHANGED <<fretries, fplan, fattempt, frequests, fsleeps>>
    /\ UNCHANGED outsideFetch

FetchNext ==
    \/ FetchOk
    \/ FetchBackoff
    \/ FetchGiveUp
    \/ FetchExhausted

SpecFetch == FetchInit /\ [][FetchNext]_vars

\* the requests that end the call: the first that is neither rate limited
\* nor timed out
Decisive == {i \in 1..fretries : fplan[i] \notin {"429", "timeout"}}

\* C21: a call issues at most `retries` requests; after a 429 or a timeout
\* it sleeps 2^attempt seconds and goes on, after any other failure it
\* returns {} at once, and when every attempt is rate limited or times out
\* it ends with {}.
C21_BoundedRetry ==
    /\ frequests <= fretries
    /\ Len(fsleeps) <= frequests
    /\ \A i \in 1..Len(fsleeps) :
          /\ fsleeps[i] = 2 ^ (i - 1)
          /\ fplan[i] \in {"429", "timeout"}
    /\ fpc # "done" => ENABLED FetchNext
    /\ fpc = "done" =>
          IF Decisive = {}
          THEN /\ fresult = EmptyDict
               /\ frequests = fretries
               /\ Len(fsleeps) = fretries
          ELSE LET k == CHOOSE i \in Decisive : \A j \in Decisive : i <= j
               IN  /\ frequests = k
                   /\ Len(fsleeps) = k - 1
                   /\ fresult = IF fplan[k] = "ok" THEN FetchedData ELSE EmptyDict

C21_Witness ==
    /\ fretries = 2
    /\ fplan = <<"429", "timeout">>
    /\ fpc = "done"
    /\ frequests = 2
    /\ fsleeps = <<1, 2>>
    /\ fresult = EmptyDict

(***************************************************************************)
(* get_ebay_access_token and TOKEN_CACHE (src/ebay_utils/auth.py)          *)
(*                                                                         *)
(* Time is in seconds and moves in steps of TickSizes, also while the      *)
(* token request is under way.  Tokens are numbered in the order the       *)
(* issuer hands them out.                                                  *)
(***************************************************************************)
MaxTicks == 4
MaxTokenCalls == 3

TickSizes == {30, 7140}

\* expires_in of a token response: a number of seconds, or no such key
\* a JSON number of seconds
Seconds(n) == [t |-> "seconds", n |-> n]

\* a value of expires_in that is not a number
Malformed == [t |-> "malformed"]

\* the n-th token of the issuer
Token(n) == [t |-> "token", n |-> n]

Lifetimes == {Seconds(30), Seconds(90), Absent}

\* token_data.get("expires_in", 7200)
ExpiresIn(life) == IF life = Absent THEN 7200 ELSE life.n

\* TOKEN_CACHE = {"access_token": None, "expires_at": 0}
EmptyCache == [access_token |-> None, expires_at |-> 0]

TokenInit ==
    /\ tcreds \in BOOLEAN
    /\ tnow = 0
    /\ tticks = 0
    /\ tcache = EmptyCache
    /\ tpc = "idle"
    /\ tissued = 0
    /\ tcall = NotCalled
    /\ tcalls = 0
    /\ tlast = NotCalled
    /\ AggIdle
    /\ NormIdle
    /\ RulesIdle
    /\ IngestIdle
    /\ AdapterIdle
    /\ FetchIdle
    /\ LoginIdle
    /\ SessionIdle

Tick ==
    /\ tpc \in {"idle", "posting"}
    /\ tticks < MaxTicks
    /\ \E d \in TickSizes : tnow' = tnow + d
    /\ tticks' = tticks + 1
    /\ UNCHANGED <<tcreds, tcache, tpc, tissued, tcall, tcalls, tlast>>
    /\ UNCHANGED outsideToken

CallAllowed == tpc = "idle" /\ tcalls < MaxTokenCalls

\* the record of a call that ends now
Ended(kind, at, before, contacted, life) ==
    [kind |-> kind, at |-> at, before |-> before, after |-> tcache',
     end |-> tnow, contacted |-> contacted, life |-> life]

\* lines 40-42: credentials missing
TokenNoCredentials ==
    /\ CallAllowed
    /\ ~tcreds
    /\ UNCHANGED tcache
    /\ tlast' = Ended("raised", tnow, tcache, FALSE, Absent)
    /\ tcalls' = tcalls + 1
    /\ UNCHANGED <<tcreds, tnow, tticks, tpc, tissued, tcall>>
    /\ UNCHANGED outsideToken

\* a validity test that still accepts the token at its expiry time
StillValidInclusive ==
    tcache.access_token # None /\ tnow <= tcache.expires_at

\* line 45: TOKEN_CACHE["access_token"] and time.time() < TOKEN_CACHE["expires_at"]
StillValid ==
    tcache.access_token # None /\ tnow < tcache.expires_at

\* lines 45-46: the cached token is returned
TokenCached ==
    /\ CallAllowed
    /\ tcreds
    /\ StillValid
    /\ UNCHANGED tcache
    /\ tlast' = Ended("cached", tnow, tcache, FALSE, Absent)
    /\ tcalls' = tcalls + 1
    /\ UNCHANGED <<tcreds, tnow, tticks, tpc, tissued, tcall>>
    /\ UNCHANGED outsideToken

\* lines 48-66: the token request is sent
TokenPost ==
    /\ CallAllowed
    /\ tcreds
    /\ ~StillValid
    /\ tpc' = "posting"
    /\ tcall' = [at |-> tnow, before |-> tcache]
    /\ UNCHANGED <<tcreds, tnow, tticks, tcache, tissued, tcalls, tlast>>
    /\ UNCHANGED outsideToken

\* lines 72-77: a good response, both entries are written
TokenRefreshed ==
    /\ tpc = "posting"
    /\ \E life \in Lifetimes :
          /\ tcache' = [access_token |-> Token(tissued + 1),
                        expires_at |-> tnow + ExpiresIn(life) - 60]
          /\ tlast' = Ended("fresh", tcall.at, tcall.before, TRUE, life)
    /\ tcalls' = tcalls + 1
    /\ tissued' = tissued + 1
    /\ tpc' = "idle"
    /\ tcall' = NotCalled
    /\ UNCHANGED <<tcreds, tnow, tticks>>
    /\ UNCHANGED outsideToken

\* lines 66-73, 79-84: transport error, status other than 200, a body that
\* is not JSON or has no access_token; the exception is raised again
TokenRefreshFails ==
    /\ tpc = "posting"
    /\ UNCHANGED tcache
    /\ tlast' = Ended("raised", tcall.at, tcall.before, TRUE, Absent)
    /\ tcalls' = tcalls + 1
    /\ tpc' = "idle"
    /\ tcall' = NotCalled
    /\ UNCHANGED <<tcreds, tnow, tticks, tissued>>
    /\ UNCHANGED outsideToken

\* lines 73-74, 82-84: expires_in is not a number: line 73 has stored the
\* new access_token when the sum of line 74 raises TypeError
TokenBadLifetime ==
    /\ tpc = "posting"
    /\ tcache' = [tcache EXCEPT !.access_token = Token(tissued + 1)]
    /\ tlast' = Ended("raised", tcall.at, tcall.before, TRUE, Malformed)
    /\ tcalls' = tcalls + 1
    /\ tissued' = tissued + 1
    /\ tpc' = "idle"
    /\ tcall' = NotCalled
    /\ UNCHANGED <<tcreds, tnow, tticks>>
    /\ UNCHANGED outsideToken

TokenNext ==
    \/ Tick
    \/ TokenNoCredentials
    \/ TokenCached
    \/ TokenPost
    \/ TokenRefreshed
    \/ TokenRefreshFails
    \/ TokenBadLifetime

SpecToken == TokenInit /\ [][TokenNext]_vars

\* C22: the cached token is returned, without a request to the issuer, only
\* while the time of the call is strictly before the cached expires_at; a
\* call at or after expires_at asks the issuer and does not hand back the
\* old token as a cached one; and a refresh stores expires_at = the time of
\* the refresh + expires_in (7200 when the issuer gives none) - 60.
C22_CacheExpiry ==
    tcalls > 0 =>
        /\ tlast.kind = "cached" =>
              /\ ~tlast.contacted
              /\ tlast.before.access_token # None
              /\ tlast.at < tlast.before.expires_at
              /\ tlast.after = tlast.before
        /\ (tcreds /\ tlast.before.access_token # None
                   /\ tlast.at < tlast.before.expires_at) => tlast.kind = "cached"
        /\ (tcreds /\ tlast.at >= tlast.before.expires_at) =>
              /\ tlast.contacted
              /\ tlast.kind # "cached"
        /\ tlast.kind = "fresh" =>
              /\ tlast.contacted
              /\ tlast.after.access_token \notin {None, tlast.before.access_token}
              /\ tlast.after.expires_at = tlast.end + ExpiresIn(tlast.life) - 60

C22_Witness ==
    /\ tcalls > 0
    /\ tlast.kind = "fresh"
    /\ tlast.before.access_token # None
    /\ tlast.at = tlast.before.expires_at
    /\ tlast.life = Absent
    /\ tcache.expires_at = tlast.end + 7140

\* C24: whenever get_ebay_access_token raises, TOKEN_CACHE holds the same
\* access_token and expires_at as before the call.
C24_FailedRefreshKeepsCache ==
    (tcalls > 0 /\ tlast.kind = "raised") => tlast.after = tlast.before

\* ---------------------------------------------------------------------------
\* src/app/sandpiper.py: _login, the in-memory token cache of the inventory
\* service, under concurrent calls.  The calls are coroutines of one event
\* loop: a call runs without interruption from one await to the next, and the
\* only await between the validity check and the cache write is the login
\* request of line 38.
\* ---------------------------------------------------------------------------

\* Number of _login calls, concurrent or one after another.
MaxLogins == 3

\* Number of clock advances.
MaxLoginTicks == 2

\* The clock advances by a second or by the lifetime of a cached token.
LoginTickSizes == {1, 3600}

Logins == 1..MaxLogins

\* _cached_token = None, _cached_expiry = 0.
EmptyPair == [token |-> None, expiry |-> 0]

\* What the login request can bring: a body with a jwtToken, or a failure.
LoginFailures == {"transport", "status", "bad json", "no token"}

\* A call that has not started.
NotStarted == [pc |-> "not started", now |-> 0, tok |-> None, ret |-> NotCalled]

LoginInit ==
    /\ lnow = 0
    /\ lticks = 0
    /\ lcache = EmptyPair
    /\ lproc = [p \in Logins |-> NotStarted]
    /\ lwriter = 0
    /\ AggIdle
    /\ NormIdle
    /\ RulesIdle
    /\ IngestIdle
    /\ AdapterIdle
    /\ FetchIdle
    /\ TokenIdle
    /\ SessionIdle

\* Time passes, also while calls are suspended at the request.
LoginTick ==
    /\ lticks < MaxLoginTicks
    /\ \E d \in LoginTickSizes : lnow' = lnow + d
    /\ lticks' = lticks + 1
    /\ UNCHANGED <<lcache, lproc, lwriter>>
    /\ UNCHANGED outsideLogin

\* Line 28: the cached token is set and the call's now is before the expiry.
LoginStillValid(now) == lcache.token # None /\ now < lcache.expiry

\* Lines 27-29: the call reads the clock and returns the cached token.
LoginCached(p) ==
    /\ lproc[p].pc = "not started"
    /\ LoginStillValid(lnow)
    /\ lproc' = [lproc EXCEPT ![p] = [pc |-> "returned", now |-> lnow,
                                      tok |-> None, ret |-> lcache.token]]
    /\ UNCHANGED <<lnow, lticks, lcache, lwriter>>
    /\ UNCHANGED outsideLogin

\* Lines 27-38: the call reads the clock, finds no valid token, sends the
\* login request and is suspended until the response.
LoginRequest(p) ==
    /\ lproc[p].pc = "not started"
    /\ ~LoginStillValid(lnow)
    /\ lproc' = [lproc EXCEPT ![p] = [pc |-> "awaiting", now |-> lnow,
                                      tok |-> None, ret |-> NotCalled]]
    /\ UNCHANGED <<lnow, lticks, lcache, lwriter>>
    /\ UNCHANGED outsideLogin

\* A write of the token alone, leaving the expiry as it was.
LoginStoresTokenOnly(p) ==
    /\ lproc[p].pc = "awaiting"
    /\ lproc' = [lproc EXCEPT ![p].pc = "returned", ![p].tok = Token(p),
                              ![p].ret = Token(p)]
    /\ lcache' = [lcache EXCEPT !.token = Token(p)]
    /\ lwriter' = p
    /\ UNCHANGED <<lnow, lticks>>
    /\ UNCHANGED outsideLogin

\* Lines 38-47: the response brings a token; the call stores the token and
\* now + 3600, with the now it read at line 27, and returns the token.  No
\* await lies between lines 44 and 45.
LoginSucceeds(p) ==
    /\ lproc[p].pc = "awaiting"
    /\ lproc' = [lproc EXCEPT ![p].pc = "returned", ![p].tok = Token(p),
                              ![p].ret = Token(p)]
    /\ lcache' = [token |-> Token(p), expiry |-> lproc[p].now + 3600]
    /\ lwriter' = p
    /\ UNCHANGED <<lnow, lticks>>
    /\ UNCHANGED outsideLogin

\* Lines 38-43: the request fails, the status is an error, the body is not
\* JSON or carries no jwtToken; the call raises before line 44.
LoginFails(p) ==
    /\ lproc[p].pc = "awaiting"
    /\ \E kind \in LoginFailures :
        lproc' = [lproc EXCEPT ![p].pc = "raised", ![p].ret = Raise]
    /\ UNCHANGED <<lnow, lticks, lcache, lwriter>>
    /\ UNCHANGED outsideLogin

LoginNext ==
    \/ LoginTick
    \/ \E p \in Logins : LoginCached(p)
    \/ \E p \in Logins : LoginRequest(p)
    \/ \E p \in Logins : LoginSucceeds(p)
    \/ \E p \in Logins : LoginFails(p)

SpecLogin == LoginInit /\ [][LoginNext]_vars

\* The pair a login writes: its token and its own now + 3600.
PairOf(p) == [token |-> lproc[p].tok, expiry |-> lproc[p].now + 3600]

\* C23: under every interleaving of concurrent _login calls the cached pair
\* is, in every state, the initial empty pair as long as no login wrote, and
\* afterwards the token and the expiry written together by the login that
\* wrote last; a token of one login never stands with an expiry other than
\* that login's own.
C23_CacheNeverMixed ==
    /\ lwriter = 0 => lcache = EmptyPair
    /\ lwriter # 0 => lcache = PairOf(lwriter)
    /\ \A p \in Logins :
        lcache.token = Token(p) => lcache.expiry = lproc[p].now + 3600

\* Two logins overlapped at the request with different clock readings, both
\* wrote, and the one that started first wrote last: its pair remains.
C23_Witness ==
    \E p, q \in Logins :
        /\ p # q
        /\ lproc[p].tok = Token(p)
        /\ lproc[q].tok = Token(q)
        /\ lproc[p].now < lproc[q].now
        /\ lwriter = p
        /\ lcache = PairOf(p)

\* ---------------------------------------------------------------------------
\* src/app/main.py: the session handlers ingest, review_page and approve_item
\* around the draft file logs/temp_<session_id>.json, with the calls of
\* approve_item into src/app/sandpiper.py (create_item_and_barcode) and
\* src/app/sheets.py (append_row).  Requests are handled one after another.
\* ---------------------------------------------------------------------------

\* Number of sessions that ingest opens; it issues the ids in order.
MaxSessions == 2

\* Number of approve requests that get past the draft check.
MaxApproves == 2

\* The session ids a request may name: those of ingest and one that ingest
\* never issues.
Sessions == 1..(MaxSessions + 1)

\* No file logs/temp_<id>.json.  Of a draft's content the model keeps the
\* inventory number, which approve_item reads at line 126.
NoDraftFile == [inv |-> None]

\* The draft check left out: every session id is taken to have a draft.
DraftAssumed(sid) == sid \in Sessions

\* os.path.exists(path), lines 79 and 106.
DraftExists(sid) == sdraft[sid] # NoDraftFile

\* The Price the reviewer submits: empty, a number, a formatted price, a text.
FormPrices ==
    {PyStr(<<>>), PyStr(<<"1", "2", ".", "5">>),
     PyStr(<<"$", "1", "2", ".", "5", "0">>), PyStr(<<"a", "b", "c">>)}

\* The Inventory # the reviewer submits: none or one of their own.
FormInventory == {Absent, PyStr(<<"9">>)}

\* dict(form), line 113.
Forms ==
    {Entry("Title", PyStr(<<"x">>)) \o Entry("Price", pr)
        \o Entry("Inventory #", inv) : pr \in FormPrices, inv \in FormInventory}

\* What create_item_and_barcode returns: the digits of the barcode, or "#".
Barcodes == {PyStr(<<"1", "8">>), PyStr(<<"#">>)}

StrError == PyStr(<<"E", "R", "R", "O", "R">>)

\* float(s) of a string: the number written by digits with an optional "."
\* and fraction, spaces around it ignored; ValueError for anything else.
\* (Signs, exponents, inf and nan are not among the inputs.)
ToFloat(s) ==
    LET u == Strip(s)
        n == DigitRun(u, 1)
        dot == n < Len(u) /\ u[n + 1] = "."
        m == IF dot THEN DigitRun(u, n + 2) ELSE 0
        end == IF dot THEN n + 1 + m ELSE n
    IN  IF end = Len(u) /\ n + m > 0
        THEN PyFloat(DigitsToInt(SubSeq(u, 1, n), n) * 1000
                     + DigitsToInt(SubSeq(u, n + 2, n + 1 + m), m) * Pow10(3 - m))
        ELSE Raise

\* Lines 116-122: a Price that is not empty and does not start with "$" is
\* rewritten, as "$%.2f" of its number or as "$" and the text.
NormalizePrice(fields) ==
    LET val == Strip(GetOr(fields, "Price", PyStr(<<>>)).s)
    IN  IF val # <<>> /\ Head(val) # "$"
        THEN IF ToFloat(val) # Raise
             THEN Put(fields, "Price", PyStr(Dollar(ToFloat(val).mills)))
             ELSE Put(fields, "Price", PyStr(<<"$">> \o val))
        ELSE fields

\* Lines 125-126: a missing or empty Inventory # is taken from the draft.
DefaultInventory(fields, draft) ==
    IF GetOr(fields, "Inventory #", PyStr(<<>>)).s = <<>>
    THEN Put(fields, "Inventory #", draft.inv)
    ELSE fields

\* Lines 113-126: the fields of the form as approve_item goes on with them.
ReviewedFields(form, draft) == DefaultInventory(NormalizePrice(form), draft)

\* Lines 130-131: the price in dollars, 0.0 for an empty one, ValueError for
\* a text.
PriceDollars(fields) ==
    LET price_val == Replace(GetOr(fields, "Price", PyStr(<<"$", "0">>)).s, "$")
    IN  IF price_val = <<>> THEN PyFloat(0) ELSE ToFloat(price_val)

ZeroPerSession == [s \in Sessions |-> 0]

SessionInit ==
    /\ sdraft = [s \in Sessions |-> NoDraftFile]
    /\ snext = 0
    /\ sitems = ZeroPerSession
    /\ sbarcodes = ZeroPerSession
    /\ srows = ZeroPerSession
    /\ sapproved = ZeroPerSession
    /\ sstarted = 0
    /\ sreq = NotCalled
    /\ slast = NotCalled
    /\ AggIdle
    /\ NormIdle
    /\ RulesIdle
    /\ IngestIdle
    /\ AdapterIdle
    /\ FetchIdle
    /\ TokenIdle
    /\ LoginIdle

sessionStores == <<sdraft, snext, sitems, sbarcodes, srows, sapproved, sstarted>>

\* Lines 48-55: an unknown type or an image that does not open is a 400.
SessionIngestRejected ==
    /\ sreq = NotCalled
    /\ UNCHANGED <<sessionStores, sreq>>
    /\ \E type \in IngestTypes \cup {"book"}, image \in {"ok", "bad"} :
        /\ type \notin IngestTypes \/ image = "bad"
        /\ slast' = [kind |-> "ingest", sid |-> 0, status |-> 400, type |-> type,
                     before |-> sdraft, after |-> sdraft']
    /\ UNCHANGED outsideSession

\* Lines 57-61: the extraction, the pricing rules or the inventory number
\* raises; the handler ends before line 65.
SessionIngestFails ==
    /\ sreq = NotCalled
    /\ UNCHANGED <<sessionStores, sreq>>
    /\ \E type \in IngestTypes :
        slast' = [kind |-> "ingest", sid |-> 0, status |-> 500, type |-> type,
                  before |-> sdraft, after |-> sdraft']
    /\ UNCHANGED outsideSession

\* Line 61: the inventory numbers are handed out in order.
NextInventoryNumber == PyStr(IntToStr(snext + 1))

\* Lines 48-71: a fresh session id and its draft file.
SessionIngestSaved ==
    /\ sreq = NotCalled
    /\ snext < MaxSessions
    /\ \E type \in IngestTypes :
        /\ sdraft' = [sdraft EXCEPT ![snext + 1] = [inv |-> NextInventoryNumber]]
        /\ slast' = [kind |-> "ingest", sid |-> snext + 1, status |-> 200,
                     type |-> type, before |-> sdraft, after |-> sdraft']
    /\ snext' = snext + 1
    /\ UNCHANGED <<sitems, sbarcodes, srows, sapproved, sstarted, sreq>>
    /\ UNCHANGED outsideSession

\* Lines 79-80: no draft, 404.
ReviewMissing(sid) ==
    /\ sreq = NotCalled
    /\ ~DraftExists(sid)
    /\ slast' = [kind |-> "review", sid |-> sid, status |-> 404,
                 draft |-> sdraft[sid]]
    /\ UNCHANGED <<sessionStores, sreq>>
    /\ UNCHANGED outsideSession

\* Lines 82-96: the review page of the draft.
ReviewShown(sid) ==
    /\ sreq = NotCalled
    /\ DraftExists(sid)
    /\ slast' = [kind |-> "review", sid |-> sid, status |-> 200,
                 draft |-> sdraft[sid]]
    /\ UNCHANGED <<sessionStores, sreq>>
    /\ UNCHANGED outsideSession

\* The record of an approve request that ended.
ApproveEnded(r, status, fields, appends, rows) ==
    [kind |-> "approve", sid |-> r.sid, status |-> status, draft |-> r.draft,
     form |-> r.form, fields |-> fields, barcode |-> r.barcode,
     events |-> r.events, cause |-> r.cause, items |-> r.items,
     barcodes |-> r.barcodes, appends |-> appends, rows |-> rows]

\* Lines 104-107: no draft, 404 before anything else.
ApproveMissing(sid) ==
    /\ sreq = NotCalled
    /\ ~DraftExists(sid)
    /\ \E form \in Forms :
        slast' = ApproveEnded(
            [sid |-> sid, draft |-> sdraft[sid], form |-> form, barcode |-> None,
             events |-> <<>>, cause |-> "none", items |-> 0, barcodes |-> 0],
            404, <<>>, 0, 0)
    /\ UNCHANGED <<sessionStores, sreq>>
    /\ UNCHANGED outsideSession

\* Lines 104-133: the draft is read, the form normalised, the price parsed;
\* the "request" event is logged and create_item_and_barcode entered, or the
\* price does not parse.
ApproveBegin(sid) ==
    /\ sreq = NotCalled
    /\ DraftExists(sid)
    /\ sstarted < MaxApproves
    /\ \E form \in Forms :
        LET fields == ReviewedFields(form, sdraft[sid])
            parses == PriceDollars(fields) # Raise
        IN  sreq' = [kind |-> "approve", sid |-> sid, draft |-> sdraft[sid],
                     form |-> form, fields |-> fields,
                     pc |-> IF parses THEN "login" ELSE "raised",
                     barcode |-> None,
                     events |-> IF parses THEN <<"request">> ELSE <<>>,
                     cause |-> IF parses THEN "none" ELSE "unparseable price",
                     items |-> 0, barcodes |-> 0]
    /\ sstarted' = sstarted + 1
    /\ slast' = NotCalled
    /\ UNCHANGED <<sdraft, snext, sitems, sbarcodes, srows, sapproved>>
    /\ UNCHANGED outsideSession

InApprove(at) == sreq # NotCalled /\ sreq.pc = at

\* sandpiper.py line 52: _login returns a token.
SandpiperLoggedIn ==
    /\ InApprove("login")
    /\ sreq' = [sreq EXCEPT !.pc = "create"]
    /\ UNCHANGED <<sessionStores, slast>>
    /\ UNCHANGED outsideSession

\* sandpiper.py lines 72-80: the item is created.
SandpiperCreated ==
    /\ InApprove("create")
    /\ sreq' = [sreq EXCEPT !.pc = "generate", !.items = @ + 1]
    /\ sitems' = [sitems EXCEPT ![sreq.sid] = @ + 1]
    /\ UNCHANGED <<sdraft, snext, sbarcodes, srows, sapproved, sstarted, slast>>
    /\ UNCHANGED outsideSession

\* sandpiper.py lines 97-101: the barcode generation is requested.
SandpiperGenerated ==
    /\ InApprove("generate")
    /\ sreq' = [sreq EXCEPT !.pc = "retrieve", !.barcodes = @ + 1]
    /\ sbarcodes' = [sbarcodes EXCEPT ![sreq.sid] = @ + 1]
    /\ UNCHANGED <<sdraft, snext, sitems, srows, sapproved, sstarted, slast>>
    /\ UNCHANGED outsideSession

\* sandpiper.py lines 105-130 and main.py line 136: the barcode text is
\* retrieved, the barcode returned and the "response" event logged.
SandpiperRetrieved ==
    /\ InApprove("retrieve")
    /\ \E barcode \in Barcodes :
        sreq' = [sreq EXCEPT !.pc = "append", !.barcode = barcode,
                             !.events = Append(@, "response")]
    /\ UNCHANGED <<sessionStores, slast>>
    /\ UNCHANGED outsideSession

\* What raises at each step of create_item_and_barcode.
SandpiperCause(at) ==
    CASE at = "login" -> "login failure"
      [] at = "create" -> "create item error"
      [] at = "generate" -> "generate barcode error"
      [] at = "retrieve" -> "retrieve barcode error"

\* sandpiper.py lines 52, 73-78, 98-99, 106-117: the login, a request or a
\* status check raises.
SandpiperRaises ==
    /\ sreq # NotCalled
    /\ sreq.pc \in {"login", "create", "generate", "retrieve"}
    /\ sreq' = [sreq EXCEPT !.pc = "raised", !.cause = SandpiperCause(sreq.pc)]
    /\ UNCHANGED <<sessionStores, slast>>
    /\ UNCHANGED outsideSession

\* The exception leaves approve_item: no Barcode, no event, no append.
ApprovePropagate ==
    /\ InApprove("raised")
    /\ slast' = ApproveEnded(sreq, 500, sreq.fields, 0, 0)
    /\ sreq' = NotCalled
    /\ UNCHANGED sessionStores
    /\ UNCHANGED outsideSession

\* Lines 137-139: except Exception: barcode = "ERROR" and the "error" event.
ApproveCatch ==
    /\ InApprove("raised")
    /\ sreq' = [sreq EXCEPT !.pc = "append", !.barcode = StrError,
                            !.events = Append(@, "error")]
    /\ UNCHANGED <<sessionStores, slast>>
    /\ UNCHANGED outsideSession

\* Lines 141-150: the Barcode is put into the fields, append_row sends them
\* and the webhook accepts the row; the answer is the redirect.
ApproveAppend ==
    /\ InApprove("append")
    /\ srows' = [srows EXCEPT ![sreq.sid] = @ + 1]
    /\ sapproved' = [sapproved EXCEPT ![sreq.sid] = @ + 1]
    /\ slast' = ApproveEnded(sreq, 303, Put(sreq.fields, "Barcode", sreq.barcode),
                             1, 1)
    /\ sreq' = NotCalled
    /\ UNCHANGED <<sdraft, snext, sitems, sbarcodes, sstarted>>
    /\ UNCHANGED outsideSession

\* Lines 141-143 and sheets.py lines 23-29: the request of append_row fails
\* or the webhook answers with an error status; append_row raises and so
\* does approve_item.
ApproveAppendFails ==
    /\ InApprove("append")
    /\ slast' = ApproveEnded(sreq, 500, Put(sreq.fields, "Barcode", sreq.barcode),
                             1, 0)
    /\ sreq' = NotCalled
    /\ UNCHANGED sessionStores
    /\ UNCHANGED outsideSession

SessionNext ==
    \/ SessionIngestRejected
    \/ SessionIngestFails
    \/ SessionIngestSaved
    \/ \E sid \in Sessions : ReviewMissing(sid)
    \/ \E sid \in Sessions : ReviewShown(sid)
    \/ \E sid \in Sessions : ApproveMissing(sid)
    \/ \E sid \in Sessions : ApproveBegin(sid)
    \/ SandpiperLoggedIn
    \/ SandpiperCreated
    \/ SandpiperGenerated
    \/ SandpiperRetrieved
    \/ SandpiperRaises
    \/ ApproveCatch
    \/ ApproveAppend
    \/ ApproveAppendFails

SpecSession == SessionInit /\ [][SessionNext]_vars

\* C27: when the price does not parse or create_item_and_barcode raises (at
\* the login, the item creation, the barcode generation or its retrieval),
\* approve_item sets Barcode to "ERROR", logs an "error" event and no
\* "response" event, and calls append_row exactly once with the reviewed
\* fields and that Barcode; the request adds one row when the webhook accepts
\* it and never more than one.
C27_BarcodeFailureStillAppends ==
    (slast # NotCalled /\ slast.kind = "approve" /\ slast.cause # "none") =>
        /\ slast.barcode = StrError
        /\ slast.fields =
              Put(ReviewedFields(slast.form, slast.draft), "Barcode", StrError)
        /\ slast.events # <<>>
        /\ slast.events[Len(slast.events)] = "error"
        /\ \A i \in 1..Len(slast.events) : slast.events[i] # "response"
        /\ slast.appends = 1
        /\ slast.rows <= 1
        /\ slast.status = 303 => slast.rows = 1

\* An approve whose item was created but whose barcode generation raised
\* ended with the redirect: Barcode "ERROR" and one row.
C27_Witness ==
    /\ slast # NotCalled
    /\ slast.kind = "approve"
    /\ slast.cause = "generate barcode error"
    /\ slast.items = 1
    /\ slast.status = 303
    /\ slast.rows = 1
    /\ Get(slast.fields, "Barcode") = StrError

\* C28: a session id without a draft file has no item, no barcode generation
\* and no row, and no approve is at work for it; review_page and approve_item
\* answer 404 for it and approve_item does nothing else; a draft exists only
\* for an id that ingest issued, and ingest writes a draft exactly when it
\* answers 200, which it does only for a type of card, comic, record and
\* anything.
C28_NoDraftNoCommit ==
    /\ \A s \in Sessions :
        sdraft[s] = NoDraftFile =>
            /\ sitems[s] = 0
            /\ sbarcodes[s] = 0
            /\ srows[s] = 0
            /\ sreq = NotCalled \/ sreq.sid # s
    /\ \A s \in Sessions : sdraft[s] # NoDraftFile => s <= snext
    /\ (slast # NotCalled /\ slast.kind = "review" /\ slast.draft = NoDraftFile)
          => slast.status = 404
    /\ (slast # NotCalled /\ slast.kind = "approve" /\ slast.draft = NoDraftFile)
          => /\ slast.status = 404
             /\ slast.items = 0
             /\ slast.barcodes = 0
             /\ slast.appends = 0
             /\ slast.events = <<>>
    /\ (slast # NotCalled /\ slast.kind = "ingest") =>
          /\ slast.after # slast.before
                <=> (slast.status = 200 /\ slast.type \in IngestTypes)
          /\ slast.status = 200 =>
                /\ slast.before[slast.sid] = NoDraftFile
                /\ slast.after[slast.sid] # NoDraftFile
          /\ slast.type \notin IngestTypes => slast.status = 400

\* An approve for an id without a draft was answered 404 while another
\* session had been ingested and committed.
C28_Witness ==
    /\ slast # NotCalled
    /\ slast.kind = "approve"
    /\ slast.status = 404
    /\ sdraft[slast.sid] = NoDraftFile
    /\ \E s \in Sessions : sdraft[s] # NoDraftFile /\ srows[s] = 1

\* C29: for each session id at most one inventory item is created and at
\* most one row is appended.
C29_CommittedAtMostOnce ==
    \A s \in Sessions : sitems[s] <= 1 /\ srows[s] <= 1

====
